---- MODULE Spec2Model ----
(***************************************************************************)
(* A model of the cyecca Lie-group library: the planar rigid-motion group  *)
(* SE2 and its algebra se2 (cyecca/lie/_se2.py), the extended pose group   *)
(* SE23 in its three rotation flavours and its algebra se23                *)
(* (cyecca/lie/group_se23.py), and the mixed-exponential propagation       *)
(* (cyecca/models/rdd2.py).                                                *)
(*                                                                         *)
(* The library is a set of pure functions on immutable elements.  An       *)
(* element is a record [owner, param]: the algebra or group instance that  *)
(* owns it and its parameter vector.  A failed call (an assertion, a       *)
(* construction error) is an element whose owner is the error's name.      *)
(*                                                                         *)
(* Scalars are exact: a scalar is (a + b*sqrt(2))/d * pi^p, kept in lowest *)
(* terms, so that the sines and cosines of the multiples of pi/4 and the   *)
(* quotients sin(t)/t are values of the model.  d = 0 is the floating      *)
(* point NaN (0/0) or infinity (x/0), as numpy's float64 division yields.  *)
(* A value with terms of different powers of pi, as theta - sin(theta) is, *)
(* is the sum of such terms.                                               *)
(***************************************************************************)
EXTENDS Integers, Sequences, FiniteSets, TLC

\* the last call made: the operation, the instance it was called on, its
\* operands and what it returned
VARIABLES op, inst, args, res

vars == <<op, inst, args, res>>

----------------------------------------------------------------------------
(* Scalars *)

AbsI(n) == IF n < 0 THEN -n ELSE n

RECURSIVE GCD(_, _)
GCD(m, n) == IF n = 0 THEN m ELSE GCD(n, m % n)

NaN == [a |-> 0, b |-> 0, d |-> 0, p |-> 0]

Inf(s) == [a |-> s, b |-> 0, d |-> 0, p |-> 0]

Zero == [a |-> 0, b |-> 0, d |-> 1, p |-> 0]

\* a sum of terms of different powers of pi is the record of its term of
\* the highest power and the rest, [hi, lo]
IsSum(x) == "hi" \in DOMAIN x

IsFinite(x) == IsSum(x) \/ x.d # 0

\* (a + b*sqrt(2))/d * pi^p in lowest terms, d > 0
Norm(a, b, d, p) ==
    IF a = 0 /\ b = 0 THEN Zero
    ELSE LET g == GCD(GCD(AbsI(a), AbsI(b)), AbsI(d))
             s == IF d < 0 THEN -1 ELSE 1
         IN  [a |-> s * (a \div g), b |-> s * (b \div g),
              d |-> s * (d \div g), p |-> p]

I2N(n) == Norm(n, 0, 1, 0)

One == [a |-> 1, b |-> 0, d |-> 1, p |-> 0]

\* q/d * pi: an angle in radians
PiFrac(q, d) == Norm(q, 0, d, 1)

\* the sign of a + b*sqrt(2), of a finite scalar or an infinity
SignOf(x) ==
    LET a == x.a
        b == x.b
    IN  CASE a >= 0 /\ b >= 0 -> IF a = 0 /\ b = 0 THEN 0 ELSE 1
          [] a <= 0 /\ b <= 0 -> -1
          [] a > 0 /\ b < 0 -> IF a * a > 2 * b * b THEN 1 ELSE -1
          [] a < 0 /\ b > 0 -> IF 2 * b * b > a * a THEN 1 ELSE -1

RECURSIVE NNeg(_)
NNeg(x) ==
    IF IsSum(x) THEN [hi |-> NNeg(x.hi), lo |-> NNeg(x.lo)]
    ELSE [x EXCEPT !.a = -x.a, !.b = -x.b]

\* the sum of two finite terms of one power of pi
TermAdd(x, y) ==
    Norm(x.a * y.d + y.a * x.d, x.b * y.d + y.b * x.d, x.d * y.d, x.p)

\* a finite non-zero term m added to a finite scalar x
RECURSIVE AddTerm(_, _)
AddTerm(m, x) ==
    IF x = Zero THEN m
    ELSE LET h == IF IsSum(x) THEN x.hi ELSE x
             l == IF IsSum(x) THEN x.lo ELSE Zero
         IN  IF m.p > h.p THEN [hi |-> m, lo |-> x]
             ELSE IF m.p = h.p
                  THEN LET s == TermAdd(m, h)
                       IN  IF s = Zero THEN l
                           ELSE IF l = Zero THEN s
                           ELSE [hi |-> s, lo |-> l]
             ELSE LET r == AddTerm(m, l)
                  IN  IF r = Zero THEN h ELSE [hi |-> h, lo |-> r]

\* float64 addition: NaN propagates, inf - inf = NaN, inf + finite = inf
RECURSIVE NAdd(_, _)
NAdd(x, y) ==
    IF ~IsFinite(x) \/ ~IsFinite(y)
    THEN IF x = y THEN x
         ELSE IF IsFinite(x) THEN y
         ELSE IF IsFinite(y) THEN x
         ELSE NaN
    ELSE IF x = Zero THEN y
    ELSE NAdd(IF IsSum(x) THEN x.lo ELSE Zero,
              AddTerm(IF IsSum(x) THEN x.hi ELSE x, y))

NSub(x, y) == NAdd(x, NNeg(y))

\* float64 multiplication: 0 * NaN = NaN, 0 * inf = NaN
RECURSIVE NMul(_, _)
NMul(x, y) ==
    IF IsSum(x) THEN NAdd(NMul(x.hi, y), NMul(x.lo, y))
    ELSE IF IsSum(y) THEN NMul(y, x)
    ELSE IF x.d # 0 /\ y.d # 0
    THEN Norm(x.a * y.a + 2 * x.b * y.b, x.a * y.b + x.b * y.a,
              x.d * y.d, x.p + y.p)
    ELSE IF x = NaN \/ y = NaN \/ x = Zero \/ y = Zero THEN NaN
    ELSE Inf(SignOf(x) * SignOf(y))

\* 1/y for a finite term y # 0: the conjugate over the norm a^2 - 2 b^2
NInv(y) ==
    CASE ~IsSum(y) ->
        Norm(y.a * y.d, -(y.b * y.d), y.a * y.a - 2 * y.b * y.b, -y.p)

\* float64 division: 0/0 = NaN, x/0 = +-inf, no exception
FDiv(x, y) ==
    IF x = NaN \/ y = NaN THEN NaN
    ELSE IF ~IsFinite(y) THEN (IF ~IsFinite(x) THEN NaN ELSE Zero)
    ELSE IF y = Zero THEN (IF x = Zero THEN NaN ELSE Inf(SignOf(x)))
    ELSE NMul(x, NInv(y))

\* sqrt(2)/2
Sqrt2Half == [a |-> 0, b |-> 1, d |-> 2, p |-> 0]

\* the eighth of a turn an angle k*pi/4 is, k mod 8
Eighth(t) ==
    CASE t = Zero -> 0
      [] t # Zero /\ t.p = 1 /\ t.b = 0 /\ 4 % t.d = 0 ->
            (t.a * (4 \div t.d)) % 8

CosTable == <<One, Sqrt2Half, Zero, NNeg(Sqrt2Half),
              NNeg(One), NNeg(Sqrt2Half), Zero, Sqrt2Half>>

SinTable == <<Zero, Sqrt2Half, One, Sqrt2Half,
              Zero, NNeg(Sqrt2Half), NNeg(One), NNeg(Sqrt2Half)>>

NCos(t) == IF ~IsFinite(t) THEN NaN ELSE CosTable[Eighth(t) + 1]

NSin(t) == IF ~IsFinite(t) THEN NaN ELSE SinTable[Eighth(t) + 1]

----------------------------------------------------------------------------
(* Vectors and matrices: a vector is a sequence of scalars, a matrix a     *)
(* sequence of rows.                                                       *)

\* the array with the entries of f, each computed once
Array(f) == SubSeq(f, 1, Len(f))

Zeros(n) == Array([i \in 1..n |-> Zero])

RECURSIVE SumTo(_, _)
SumTo(f, n) == IF n = 0 THEN Zero ELSE NAdd(SumTo(f, n - 1), f[n])

Dot(u, v) == SumTo([i \in 1..Len(u) |-> NMul(u[i], v[i])], Len(u))

VAdd(u, v) == Array([i \in 1..Len(u) |-> NAdd(u[i], v[i])])

VNeg(u) == Array([i \in 1..Len(u) |-> NNeg(u[i])])

VScale(k, u) == Array([i \in 1..Len(u) |-> NMul(k, u[i])])

Transpose(M) ==
    Array([j \in 1..Len(M[1]) |-> Array([i \in 1..Len(M) |-> M[i][j]])])

Column(M, j) == Array([i \in 1..Len(M) |-> M[i][j]])

\* M @ v
MatVec(M, v) == Array([i \in 1..Len(M) |-> Dot(M[i], v)])

\* M @ N
MatMul(M, N) ==
    Array([i \in 1..Len(M) |->
              Array([j \in 1..Len(N[1]) |-> Dot(M[i], Column(N, j))])])

MatSub(M, N) ==
    Array([i \in 1..Len(M) |->
              Array([j \in 1..Len(M[1]) |-> NSub(M[i][j], N[i][j])])])

MatNeg(M) == Array([i \in 1..Len(M) |-> VNeg(M[i])])

\* param[i:] and param[:i] of numpy, with 0-based i
From(v, i) == SubSeq(v, i + 1, Len(v))

Upto(v, i) == SubSeq(v, 1, i)

----------------------------------------------------------------------------
(* Instances and elements.  An instance is named by a string; equality of  *)
(* instances is identity, as the classes define no __eq__.                 *)

\* the instances created at import: the algebras se2, so2, so3, se23, the
\* groups SE2, SO2, the SO3 and the SE23 flavours; "se2_wedge" is an
\* SE2LieAlgebra instance that SE2LieAlgebra.wedge creates
SE23Groups == {"SE23Mrp", "SE23Quat", "SE23EulerB321"}

SE23_n_param == 10

se23_n_param == 9

se2_n_param == 3

SE2_n_param == 3

NParam(A) ==
    CASE A \in {"se2", "se2_wedge"} -> se2_n_param
      [] A = "SE2" -> SE2_n_param
      [] A \in {"so2", "SO2"} -> 1
      [] A \in {"so3", "SO3Mrp", "SO3EulerB321"} -> 3
      [] A = "SO3Quat" -> 4
      [] A = "se23" -> se23_n_param
      [] A \in SE23Groups -> SE23_n_param

\* the class an instance is of
ClassOf(A) ==
    CASE A \in {"se2", "se2_wedge"} -> "SE2LieAlgebra"
      [] A \in SE23Groups -> "SE23LieGroup"
      [] OTHER -> A

\* the SO3 flavour an SE23 group was constructed with
SO3Of(G) ==
    CASE G = "SE23Mrp" -> "SO3Mrp"
      [] G = "SE23Quat" -> "SO3Quat"
      [] G = "SE23EulerB321" -> "SO3EulerB321"

\* the algebra a group was constructed with
AlgebraOf(G) ==
    CASE G = "SE2" -> "se2"
      [] G = "SO2" -> "so2"
      [] G \in {"SO3Mrp", "SO3Quat", "SO3EulerB321"} -> "so3"
      [] G \in SE23Groups -> "se23"

IsError(e) ==
    e.owner \in {"AssertionError", "ShapeError", "ValueError", "TypeError"}

Error(name) == [owner |-> name, param |-> <<>>]

\* instance.element(param) / instance.elem(param): a parameter vector of the
\* wrong length is a construction-time error; the element holds the vector
\* as an array of its own
Elem(A, param) ==
    IF Len(param) = NParam(A)
    THEN [owner |-> A, param |-> SubSeq(param, 1, Len(param))]
    ELSE Error("ShapeError")

----------------------------------------------------------------------------
(* so2 / SO2, as far as SE2 uses them *)

\* so2 element to_matrix: the 2x2 skew generator
so2_to_matrix(e) ==
    <<<<Zero, NNeg(e.param[1])>>, <<e.param[1], Zero>>>>

\* SO2 element to_matrix: the 2x2 rotation matrix
SO2_to_matrix(e) ==
    <<<<NCos(e.param[1]), NNeg(NSin(e.param[1]))>>,
      <<NSin(e.param[1]), NCos(e.param[1])>>>>

----------------------------------------------------------------------------
(* se2: SE2LieAlgebra *)

\* np.block([[Omega, v], [Z13]])
se2_to_matrix(left) ==
    LET Omega == so2_to_matrix(Elem("so2", From(left.param, 2)))
        v == Upto(left.param, 2)
    IN  <<Omega[1] \o <<v[1]>>, Omega[2] \o <<v[2]>>, Zeros(3)>>

\* the commutator with its second term dropped
se2_bracket_no_subtraction(self, left, right) ==
    IF self # left.owner \/ self # right.owner THEN Error("AssertionError")
    ELSE LET L == se2_to_matrix(left)
             R == se2_to_matrix(right)
             c == MatMul(L, R)
         IN  Elem(self, <<c[1][3], c[2][3], c[2][1]>>)

se2_bracket(self, left, right) ==
    IF self # left.owner \/ self # right.owner THEN Error("AssertionError")
    ELSE LET L == se2_to_matrix(left)
             R == se2_to_matrix(right)
             c == MatSub(MatMul(L, R), MatMul(R, L))
         IN  Elem(self, <<c[1][3], c[2][3], c[2][1]>>)

\* the owners compared by class, not by instance
se2_addition_same_class(self, left, right) ==
    IF ClassOf(self) # ClassOf(left.owner) \/ ClassOf(self) # ClassOf(right.owner)
    THEN Error("AssertionError")
    ELSE Elem(self, VAdd(left.param, right.param))

se2_addition(self, left, right) ==
    IF self # left.owner \/ self # right.owner THEN Error("AssertionError")
    ELSE Elem(self, VAdd(left.param, right.param))

se2_scalar_multipication(self, left, right) ==
    IF self # right.owner THEN Error("AssertionError")
    ELSE Elem(self, VScale(left, right.param))

\* wedge rebinds self to a new SE2LieAlgebra() and builds the element on it:
\* the element is owned by an instance made by this call, named
\* "se2_wedge", whichever instance wedge was called on
se2_wedge(self, left) == Elem("se2_wedge", left)

\* vee returns the parameter vector, an ndarray and no element
se2_vee(self, left) ==
    IF self # left.owner THEN Error("AssertionError")
    ELSE [owner |-> "ndarray", param |-> left.param]

----------------------------------------------------------------------------
(* SE2: SE2LieGroup *)

\* the right operand's rotation used in place of the left's
SE2_product_right_rotation(self, left, right) ==
    IF self # left.owner \/ self # right.owner THEN Error("AssertionError")
    ELSE LET R == SO2_to_matrix(Elem("SO2", From(right.param, 2)))
             v == VAdd(MatVec(R, Upto(right.param, 2)), Upto(left.param, 2))
             x == v \o VAdd(From(left.param, 2), From(right.param, 2))
         IN  Elem(self, x)

SE2_product(self, left, right) ==
    IF self # left.owner \/ self # right.owner THEN Error("AssertionError")
    ELSE LET R == SO2_to_matrix(Elem("SO2", From(left.param, 2)))
             v == VAdd(MatVec(R, Upto(right.param, 2)), Upto(left.param, 2))
             x == v \o VAdd(From(left.param, 2), From(right.param, 2))
         IN  Elem(self, x)

\* the translation rotated forward, R instead of R^T
SE2_inverse_no_transpose(self, left) ==
    IF self # left.owner THEN Error("AssertionError")
    ELSE LET v == Upto(left.param, 2)
             theta == From(left.param, 2)
             R == SO2_to_matrix(Elem("SO2", theta))
             p == VNeg(MatVec(R, v))
         IN  Elem(self, <<p[1], p[2], NNeg(theta[1])>>)

SE2_inverse(self, left) ==
    IF self # left.owner THEN Error("AssertionError")
    ELSE LET v == Upto(left.param, 2)
             theta == From(left.param, 2)
             R == SO2_to_matrix(Elem("SO2", theta))
             p == VNeg(MatVec(Transpose(R), v))
         IN  Elem(self, <<p[1], p[2], NNeg(theta[1])>>)

SE2_identity(self) == Elem(self, Zeros(NParam(self)))

SE2_exp(self, left) ==
    IF AlgebraOf(self) # left.owner THEN Error("AssertionError")
    ELSE LET theta == left.param[3]
             sin_th == NSin(theta)
             cos_th == NCos(theta)
             a == FDiv(sin_th, theta)
             b == FDiv(NSub(One, cos_th), theta)
             V == <<<<a, NNeg(b)>>, <<b, a>>>>
             v == MatVec(V, Upto(left.param, 2))
         IN  Elem(self, <<v[1], v[2], theta>>)

\* 1/threshold and 1000*pi rounded up, for the threshold 1e-3 of the
\* small-angle branches
ThresholdInv == 1000

ThresholdInvPi == 3142

\* |t| < 1e-3, for t rational or a rational multiple of pi
SmallAngle(t) ==
    /\ IsFinite(t)
    /\ t.b = 0
    /\ \/ t = Zero
       \/ t.p = 0 /\ ThresholdInv * AbsI(t.a) < t.d
       \/ t.p = 1 /\ ThresholdInvPi * AbsI(t.a) <= t.d

\* a = 1 - t^2/6 + t^4/120 and b = t/2 - t^3/24 + t^5/720, the Taylor values
TaylorA(t) ==
    LET t2 == NMul(t, t)
    IN  NAdd(NSub(One, FDiv(t2, I2N(6))), FDiv(NMul(t2, t2), I2N(120)))

TaylorB(t) ==
    LET t2 == NMul(t, t)
        t3 == NMul(t2, t)
    IN  NAdd(NSub(FDiv(t, I2N(2)), FDiv(t3, I2N(24))),
             FDiv(NMul(t3, t2), I2N(720)))

\* np.where(cond, x, y) of scalars: x where cond holds, y elsewhere; the
\* value not selected, computed under np.errstate, does not show
Where(cond, x, y) == IF cond THEN x ELSE y

\* p = V_inv @ v with V_inv = [[a, b], [-b, a]] / n, and the algebra element
\* of p and theta
SE2_log_p(self, a, b, n, v, theta) ==
    Elem(AlgebraOf(self),
         MatVec(<<<<FDiv(a, n), FDiv(b, n)>>,
                  <<FDiv(NNeg(b), n), FDiv(a, n)>>>>, v) \o <<theta>>)

\* n = a**2 + b**2
SE2_log_n(self, a, b, v, theta) ==
    SE2_log_p(self, a, b, NAdd(NMul(a, a), NMul(b, b)), v, theta)

\* the closed forms for every theta, without the np.where
SE2_log_unguarded(self, left) ==
    IF self # left.owner THEN Error("AssertionError")
    ELSE SE2_log_n(self,
                   FDiv(NSin(left.param[3]), left.param[3]),
                   FDiv(NSub(One, NCos(left.param[3])), left.param[3]),
                   Upto(left.param, 2), left.param[3])

SE2_log(self, left) ==
    IF self # left.owner THEN Error("AssertionError")
    ELSE SE2_log_n(self,
                   Where(SmallAngle(left.param[3]), TaylorA(left.param[3]),
                         FDiv(NSin(left.param[3]), left.param[3])),
                   Where(SmallAngle(left.param[3]), TaylorB(left.param[3]),
                         FDiv(NSub(One, NCos(left.param[3])), left.param[3])),
                   Upto(left.param, 2), left.param[3])

----------------------------------------------------------------------------
(* so3 and the SO3 flavours, as far as SE23 and exp_mixed use them *)

Eye(n) ==
    Array([i \in 1..n |-> Array([j \in 1..n |-> IF i = j THEN One ELSE Zero])])

MatAdd(M, N) ==
    Array([i \in 1..Len(M) |->
              Array([j \in 1..Len(M[1]) |-> NAdd(M[i][j], N[i][j])])])

MatScale(k, M) == Array([i \in 1..Len(M) |-> VScale(k, M[i])])

\* the 3x3 skew matrix of w
Skew(w) ==
    <<<<Zero, NNeg(w[3]), w[2]>>,
      <<w[3], Zero, NNeg(w[1])>>,
      <<NNeg(w[2]), w[1], Zero>>>>

Cross(u, v) == MatVec(Skew(u), v)

\* so3 element to_Matrix
so3_to_Matrix(e) == Skew(e.param)

\* the norm of a vector with at most one non-zero component
Norm2(v) ==
    LET nz == {i \in 1..Len(v) : v[i] # Zero}
    IN  CASE nz = {} -> Zero
          [] Cardinality(nz) = 1 ->
                LET x == v[CHOOSE i \in nz : TRUE]
                IN  IF SignOf(x) < 0 THEN NNeg(x) ELSE x

\* quaternion (w, x, y, z): the Hamilton product
QuatProduct(q, r) ==
    <<NSub(NMul(q[1], r[1]), Dot(From(q, 1), From(r, 1)))>>
    \o VAdd(VAdd(VScale(q[1], From(r, 1)), VScale(r[1], From(q, 1))),
            Cross(From(q, 1), From(r, 1)))

\* the rotation matrix of the quaternion (a, v), with K the skew matrix of
\* v: (q.q) I + 2 a K + 2 K K, whose diagonal is aa + bb - cc - dd, ...
QuatToMatrix(q) ==
    LET K == Skew(From(q, 1))
    IN  MatAdd(MatAdd(MatScale(Dot(q, q), Eye(3)),
                      MatScale(NMul(I2N(2), q[1]), K)),
               MatScale(I2N(2), MatMul(K, K)))

\* modified Rodrigues parameters: the stereographic projection of the
\* quaternion, a = q_v / (1 + q_w)
MrpToQuat(a) ==
    LET n == Dot(a, a)
    IN  VScale(FDiv(One, NAdd(One, n)),
               <<NSub(One, n)>> \o VScale(I2N(2), a))

QuatToMrp(q) == VScale(FDiv(One, NAdd(One, q[1])), From(q, 1))

\* SO3Quat: product, inverse and to_Matrix
SO3Quat_product(left, right) ==
    IF left.owner # "SO3Quat" \/ right.owner # "SO3Quat"
    THEN Error("AssertionError")
    ELSE Elem("SO3Quat", QuatProduct(left.param, right.param))

SO3Quat_inverse(e) ==
    Elem("SO3Quat", <<e.param[1]>> \o VNeg(From(e.param, 1)))

SO3Quat_to_Matrix(e) == QuatToMatrix(e.param)

\* SO3Mrp composes and maps to a matrix as the quaternion of its parameters
\* does.  SO3EulerB321 has no arm: the SE23EulerB321 operations hand its
\* constructor 7 or 6 entries and never get an element to multiply, invert
\* or map to a matrix.
SO3_Quat(e) ==
    CASE e.owner = "SO3Quat" -> e
      [] e.owner = "SO3Mrp" -> Elem("SO3Quat", MrpToQuat(e.param))

SO3_from_Quat(G, q) ==
    CASE IsError(q) -> q
      [] ~IsError(q) /\ G = "SO3Quat" -> q
      [] ~IsError(q) /\ G = "SO3Mrp" -> Elem("SO3Mrp", QuatToMrp(q.param))

SO3_to_Matrix(e) == SO3Quat_to_Matrix(SO3_Quat(e))

SO3_product(left, right) ==
    IF left.owner # right.owner THEN Error("AssertionError")
    ELSE SO3_from_Quat(left.owner,
                       SO3Quat_product(SO3_Quat(left), SO3_Quat(right)))

SO3_inverse(e) == SO3_from_Quat(e.owner, SO3Quat_inverse(SO3_Quat(e)))

\* so3 element exp(SO3Quat): [cos(t/2), sin(t/2)/t * w], the series value
\* 1/2 of sin(t/2)/t at t = 0
so3_exp_Quat(w) ==
    LET t == Norm2(w.param)
        half == NMul(t, Norm(1, 0, 2, 0))
    IN  Elem("SO3Quat",
             <<NCos(half)>>
             \o VScale(IF t = Zero THEN Norm(1, 0, 2, 0)
                       ELSE FDiv(NSin(half), t),
                       w.param))

----------------------------------------------------------------------------
(* se23: SE23LieAlgebra *)

\* np.block([[Omega, v, p], [Z15]]): three rows of five and one row of
\* zeros, a 4x5 array
se23_to_Matrix(arg) ==
    LET Omega == so3_to_Matrix(Elem("so3", From(arg.param, 6)))
        p == Upto(arg.param, 3)
        v == SubSeq(arg.param, 4, 6)
    IN  [i \in 1..3 |-> Omega[i] \o <<v[i], p[i]>>] \o <<Zeros(5)>>

\* the matrix product needs the left operand's columns to be the right
\* operand's rows
se23_bracket(self, left, right) ==
    IF self # left.owner \/ self # right.owner THEN Error("AssertionError")
    ELSE LET L == se23_to_Matrix(left)
             R == se23_to_Matrix(right)
             c == MatSub(MatMul(L, R), MatMul(R, L))
         IN  IF Len(L[1]) # Len(R) \/ Len(R[1]) # Len(L)
             THEN Error("ValueError")
             ELSE Elem(self, <<c[1][5], c[2][5], c[3][5],
                               c[1][4], c[2][4], c[3][4],
                               c[3][2], c[1][3], c[2][1]>>)

se23_addition(self, left, right) ==
    IF self # left.owner \/ self # right.owner THEN Error("AssertionError")
    ELSE Elem(self, VAdd(left.param, right.param))

se23_scalar_multiplication(self, left, right) ==
    IF self # right.owner THEN Error("AssertionError")
    ELSE Elem(self, VScale(left, right.param))

se23_wedge(self, arg) == Elem(self, arg)

se23_vee(self, arg) ==
    IF self # arg.owner THEN Error("AssertionError")
    ELSE [owner |-> "ndarray", param |-> arg.param]

----------------------------------------------------------------------------
(* SE23Mrp, SE23Quat, SE23EulerB321: SE23LieGroup *)

SE23_product(self, left, right) ==
    IF self # left.owner \/ self # right.owner THEN Error("AssertionError")
    ELSE LET Rl == Elem(SO3Of(self), From(left.param, 3))
             Rr == Elem(SO3Of(self), From(right.param, 3))
             R == SO3_to_Matrix(Rl)
             v == VAdd(MatVec(R, Upto(right.param, 3)), Upto(left.param, 3))
             theta == SO3_product(Rl, Rr).param
             x == v \o theta
         IN  IF IsError(Rl) THEN Rl
             ELSE IF IsError(Rr) THEN Rr
             ELSE Elem(self, x)

SE23_inverse(self, arg) ==
    IF self # arg.owner THEN Error("AssertionError")
    ELSE LET v == Upto(arg.param, 3)
             theta == From(arg.param, 3)
             Rt == Elem(SO3Of(self), theta)
             theta_inv == SO3_inverse(Rt)
             R == SO3_to_Matrix(Rt)
             p == VNeg(MatVec(Transpose(R), v))
         IN  IF IsError(Rt) THEN Rt
             ELSE Elem(self, p \o theta_inv.param)

SE23_identity(self) == Elem(self, Zeros(NParam(self)))

\* C1 and C2 are bound to the series objects SERIES["sin(x)/x"] and
\* SERIES["(1 - cos(x))/x^2"] themselves, never applied to omega: when the
\* so3 element can be built, (1 - C1) / omega**2 is arithmetic on a callable
SE23_exp(self, arg) ==
    IF AlgebraOf(self) # arg.owner THEN Error("AssertionError")
    ELSE LET v == arg.param
             omega_so3 == Elem(AlgebraOf(SO3Of(self)), From(v, 3))
         IN  IF IsError(omega_so3) THEN omega_so3
             ELSE Error("TypeError")

----------------------------------------------------------------------------
(* exp_mixed and calculate_N of cyecca/models/rdd2.py, with the element    *)
(* accessors and the series evaluator they use                             *)

\* SERIES[name](x): the closed form away from zero and the matched Taylor
\* value near zero; at x = 0 the Taylor value is the constant term
Series_1mcos_x2(x) ==
    IF x = Zero THEN Norm(1, 0, 2, 0)
    ELSE FDiv(NSub(One, NCos(x)), NMul(x, x))

Series_xmsin_x3(x) ==
    IF x = Zero THEN Norm(1, 0, 6, 0)
    ELSE FDiv(NSub(x, NSin(x)), NMul(x, NMul(x, x)))

Series_x2cos_x4(x) ==
    IF x = Zero THEN Norm(1, 0, 24, 0)
    ELSE FDiv(NSub(NAdd(FDiv(NMul(x, x), I2N(2)), NCos(x)), One),
              NMul(NMul(x, x), NMul(x, x)))

\* SE23LieAlgebraElement: v_b, a_b and Omega, the position-rate, the
\* velocity-rate and the angular-velocity channel
se23_v_b(e) == Upto(e.param, 3)

se23_a_b(e) == SubSeq(e.param, 4, 6)

se23_Omega(e) == Elem("so3", From(e.param, 6))

\* SE23LieGroupElement: p, v and R
SE23_p(X) == Upto(X.param, 3)

SE23_v(X) == SubSeq(X.param, 4, 6)

SE23_R(X) == Elem("SO3Quat", From(X.param, 6))

\* ca.horzcat(u, v): the 3x2 matrix of the columns u and v
Horzcat(u, v) == Array([i \in 1..Len(u) |-> <<u[i], v[i]>>])

\* the sum calculate_N returns, of the values it has computed
N_sum(A, AB, Omega, B, C1, C2, C3) ==
    MatAdd(MatAdd(MatAdd(A, MatScale(Norm(1, 0, 2, 0), AB)),
                  MatMul(MatMul(Omega, A),
                         MatAdd(MatScale(C1, Eye(2)), MatScale(C2, B)))),
           MatMul(MatMul(MatMul(Omega, Omega), A),
                  MatAdd(MatScale(C2, Eye(2)), MatScale(C3, B))))

\* A, A @ B, Omega and the series values at theta, handed on to the sum
N_terms(A, Omega, B, theta) ==
    N_sum(A, MatMul(A, B), Omega, B, Series_1mcos_x2(theta),
          Series_xmsin_x3(theta), Series_x2cos_x4(theta))

\* B doubled before the sum: the A B term enters whole, without its half
calculate_N_no_half(v, B) ==
    N_terms(Horzcat(se23_a_b(v), se23_v_b(v)), so3_to_Matrix(se23_Omega(v)),
            MatScale(I2N(2), B), Norm2(se23_Omega(v).param))

calculate_N(v, B) ==
    N_terms(Horzcat(se23_a_b(v), se23_v_b(v)), so3_to_Matrix(se23_Omega(v)),
            B, Norm2(se23_Omega(v).param))

\* R1 = Rr0 * Rl and P1 = Rr0 @ Pl + (Rr @ P0 + Pr) @ (I2 + B), and the
\* element of the columns of P1 and R1
exp_mixed_X1(P1, R1) ==
    IF IsError(R1) THEN R1
    ELSE Elem("SE23Quat", Column(P1, 2) \o Column(P1, 1) \o R1.param)

exp_mixed_P1(P0, Pl, Pr, Rr0, Rl, Rr, B) ==
    exp_mixed_X1(MatAdd(MatMul(SO3Quat_to_Matrix(Rr0), Pl),
                        MatMul(MatAdd(MatMul(SO3Quat_to_Matrix(Rr), P0), Pr),
                               MatAdd(Eye(2), B))),
                 SO3Quat_product(Rr0, Rl))

\* Rr0 composed in the other order, R0 * Rr
exp_mixed_R_swapped(P0, Pl, Pr, R0, Rl, Rr, B) ==
    exp_mixed_P1(P0, Pl, Pr, SO3Quat_product(R0, Rr), Rl, Rr, B)

exp_mixed_R(P0, Pl, Pr, R0, Rl, Rr, B) ==
    exp_mixed_P1(P0, Pl, Pr, SO3Quat_product(Rr, R0), Rl, Rr, B)

exp_mixed(X0, l, r, B) ==
    exp_mixed_R(Horzcat(SE23_v(X0), SE23_p(X0)), calculate_N(l, B),
                calculate_N(r, MatNeg(B)), SE23_R(X0),
                so3_exp_Quat(se23_Omega(l)), so3_exp_Quat(se23_Omega(r)), B)

\* B transposed, dt * [[0, 0], [1, 0]]
strapdown_ins_B_transposed(dt) == MatScale(dt, <<<<Zero, Zero>>, <<One, Zero>>>>)

\* B = [[0, 1], [0, 0]], passed on as B * dt
strapdown_ins_B(dt) == MatScale(dt, <<<<Zero, One>>, <<Zero, Zero>>>>)

\* the output x1 of the function, X1.param
strapdown_ins_x1(X1) ==
    IF IsError(X1) THEN X1 ELSE [owner |-> "SX", param |-> X1.param]

\* strapdown_ins_propagate(x0, a_b, omega_b, g, dt) as
\* derive_strapdown_ins_propagation builds it
strapdown_ins_propagate(x0, a_b, omega_b, g, dt) ==
    strapdown_ins_x1(
        exp_mixed(Elem("SE23Quat", x0),
                  se23_scalar_multiplication("se23", dt,
                      Elem("se23", Zeros(3) \o a_b \o omega_b)),
                  se23_scalar_multiplication("se23", dt,
                      Elem("se23", <<Zero, Zero, Zero, Zero, Zero, NNeg(g),
                                     Zero, Zero, Zero>>)),
                  strapdown_ins_B(dt)))

----------------------------------------------------------------------------
(* The integrator of the attitude rate control, rdd2.py *)

\* x > y of two floats: false when either is NaN
NGt(x, y) == x # NaN /\ y # NaN /\ SignOf(NSub(x, y)) > 0

\* the upper limit alone applied
saturate_no_lower(x, x_min, x_max) == IF NGt(x, x_max) THEN x_max ELSE x

\* ca.if_else(x > x_max, x_max, ca.if_else(x < x_min, x_min, x))
saturate(x, x_min, x_max) ==
    IF NGt(x, x_max) THEN x_max ELSE IF NGt(x_min, x) THEN x_min ELSE x

\* saturate applied to each row
saturatem(x, x_min, x_max) ==
    Array([i \in 1..Len(x) |-> saturate(x[i], x_min[i], x_max[i])])

\* e1 = omega_r - omega
attitude_rate_control_e1(omega, omega_r) == VAdd(omega_r, VNeg(omega))

\* the output i1 of attitude_rate_control,
\* i1 = saturatem(i0 + e1 * dt, -i_max, i_max); the outputs M, de1 and alpha
\* are computed from i1, e1 and the gains and enter neither i1 nor e1
attitude_rate_control_i1(i_max, omega, omega_r, i0, dt) ==
    saturatem(VAdd(i0, VScale(dt, attitude_rate_control_e1(omega, omega_r))),
              VNeg(i_max), i_max)

----------------------------------------------------------------------------
(* The operands the calls are made with *)

MaxX == 1

MaxY == 2

MaxEighth == 1

MaxAlgCoord == 1

MaxScalar == 1

\* angles k*pi/4
Angles == {PiFrac(k, 4) : k \in 0..MaxEighth}

SE2Params ==
    {<<I2N(x), I2N(y), t>> : x \in 0..MaxX, y \in 0..MaxY, t \in Angles}

se2Params ==
    {<<I2N(x), I2N(y), t>> : x \in 0..MaxAlgCoord, y \in 0..MaxAlgCoord,
                             t \in Angles}

SE2Elems == {Elem("SE2", x) : x \in SE2Params}

se2Elems == {Elem("se2", x) : x \in se2Params}

\* elements of other instances that pass the LieGroupElement /
\* LieAlgebraElement type check
ForeignGroupElems == {Elem("SO2", <<PiFrac(1, 4)>>)}

ForeignAlgebraElems ==
    {Elem("so2", <<PiFrac(1, 4)>>),
     Elem("se2_wedge", <<I2N(1), I2N(2), PiFrac(1, 4)>>)}

MaxVec == 1

\* the 3-vectors k*(1, 2, 3) of the tests
Vec3s == {VScale(I2N(k), <<One, I2N(2), I2N(3)>>) : k \in 0..MaxVec}

\* unit quaternions and the zero vector
Quats == {<<One, Zero, Zero, Zero>>, <<Zero, Zero, Zero, One>>,
          <<Zero, Zero, Zero, Zero>>}

\* rotation vectors about the z axis
RotVecs == {<<Zero, Zero, PiFrac(k, 2)>> : k \in 0..MaxVec}

\* vectors of the declared lengths of the SE23 groups and of se23
SE23Params == {p \o v \o q : p \in Vec3s, v \in Vec3s, q \in Quats}

se23Params == {a \o b \o w : a \in Vec3s, b \in Vec3s, w \in RotVecs}

SE23Elems == {Elem(G, x) : G \in SE23Groups, x \in SE23Params}

se23Elems == {Elem("se23", x) : x \in se23Params}

MaxDt == 2

MaxG == 1

\* time steps k/2
Dts == {Norm(k, 0, 2, 0) : k \in 1..MaxDt}

\* gravitational accelerations k * 9.8
Gs == {Norm(49 * k, 0, 5, 0) : k \in 1..MaxG}

UnitQuats == {q \in Quats : Dot(q, q) = One}

MaxTurn == 1

\* angular rates and rate set points, multiples of (1, -1, 2) and (1, 2, -1)
MaxRate == 1

Rates == {VScale(I2N(k), <<One, I2N(-1), I2N(2)>>) : k \in 0..MaxRate}

RateSetPoints == {VScale(I2N(k), <<One, I2N(2), I2N(-1)>>) : k \in 0..MaxRate}

\* integrator limits i_max = k (1, 1, 2), one of them negative
MaxIMax == 1

IMaxs == {VScale(I2N(k), <<One, One, I2N(2)>>) : k \in (-1)..MaxIMax}

\* integrator states a caller starts with, inside and outside the limits
I0s == {VScale(I2N(k), <<One, I2N(2), I2N(-3)>>) : k \in (-MaxRate)..MaxRate}

\* the steps a loop of strapdown_ins_propagate takes at most
MaxSteps == 3

\* angular velocities k * pi rad/s about the x and about the y axis
OmegasX == {<<PiFrac(k, 1), Zero, Zero>> : k \in 0..MaxTurn}

OmegasY == {<<Zero, PiFrac(k, 1), Zero>> : k \in 0..MaxTurn}

None == [owner |-> "None", param |-> <<>>]

Init ==
    /\ op = "import"
    /\ inst = "None"
    /\ args = <<>>
    /\ res = None

\* the calls are independent of one another: a call is made from the idle
\* state and Return goes back to it
Idle == op = "import"

Return ==
    /\ op # "import"
    /\ op' = "import"
    /\ inst' = "None"
    /\ args' = <<>>
    /\ res' = None

----------------------------------------------------------------------------
(* Calls on SE2 and se2 *)

CallSE2Product ==
    /\ Idle
    /\ \E g \in SE2Elems \cup ForeignGroupElems, h \in SE2Elems \cup ForeignGroupElems :
        /\ op' = "SE2.product"
        /\ inst' = "SE2"
        /\ args' = <<g, h>>
        /\ res' = SE2_product("SE2", g, h)

CallSE2Inverse ==
    /\ Idle
    /\ \E g \in SE2Elems \cup ForeignGroupElems :
        /\ op' = "SE2.inverse"
        /\ inst' = "SE2"
        /\ args' = <<g>>
        /\ res' = SE2_inverse("SE2", g)

CallSE2Identity ==
    /\ Idle
    /\ op' = "SE2.identity"
    /\ inst' = "SE2"
    /\ args' = <<>>
    /\ res' = SE2_identity("SE2")

CallSE2Exp ==
    /\ Idle
    /\ \E a \in se2Elems \cup ForeignAlgebraElems :
        /\ op' = "SE2.exp"
        /\ inst' = "SE2"
        /\ args' = <<a>>
        /\ res' = SE2_exp("SE2", a)

Callse2Wedge ==
    /\ Idle
    /\ \E x \in se2Params \cup {<<Zero>>} :
        /\ op' = "se2.wedge"
        /\ inst' = "se2"
        /\ args' = <<[owner |-> "ndarray", param |-> x]>>
        /\ res' = se2_wedge("se2", x)

\* vee of an element se2 made and of an element wedge returned
Callse2Vee ==
    /\ Idle
    /\ \E a \in se2Elems \cup {se2_wedge("se2", x) : x \in se2Params} :
        /\ op' = "se2.vee"
        /\ inst' = "se2"
        /\ args' = <<a>>
        /\ res' = se2_vee("se2", a)

CallSE2Log ==
    /\ Idle
    /\ \E g \in SE2Elems \cup ForeignGroupElems :
        /\ op' = "SE2.log"
        /\ inst' = "SE2"
        /\ args' = <<g>>
        /\ res' = SE2_log("SE2", g)

Callse2Bracket ==
    /\ Idle
    /\ \E A \in {"se2", "se2_wedge"} :
        \E a \in se2Elems \cup ForeignAlgebraElems, b \in se2Elems \cup ForeignAlgebraElems :
            /\ op' = "se2.bracket"
            /\ inst' = A
            /\ args' = <<a, b>>
            /\ res' = se2_bracket(A, a, b)

Callse2Addition ==
    /\ Idle
    /\ \E A \in {"se2", "se2_wedge"} :
        \E a \in se2Elems \cup ForeignAlgebraElems, b \in se2Elems \cup ForeignAlgebraElems :
            /\ op' = "se2.addition"
            /\ inst' = A
            /\ args' = <<a, b>>
            /\ res' = se2_addition(A, a, b)

Callse2ScalarMultiplication ==
    /\ Idle
    /\ \E k \in 0..MaxScalar, a \in se2Elems \cup ForeignAlgebraElems :
        /\ op' = "se2.scalar_multipication"
        /\ inst' = "se2"
        /\ args' = <<a>>
        /\ res' = se2_scalar_multipication("se2", I2N(k), a)

----------------------------------------------------------------------------
(* Calls on the SE23 groups and se23 *)

\* G.elem(param), as the tests construct elements: from vectors of 9 and of
\* 10 entries
CallSE23Elem ==
    /\ Idle
    /\ \E G \in SE23Groups \cup {"se23"}, x \in SE23Params \cup se23Params :
        /\ op' = "elem"
        /\ inst' = G
        /\ args' = <<[owner |-> "ndarray", param |-> x]>>
        /\ res' = Elem(G, x)

CallSE23Product ==
    /\ Idle
    /\ \E G \in SE23Groups, g \in SE23Elems, h \in SE23Elems :
        /\ op' = "SE23.product"
        /\ inst' = G
        /\ args' = <<g, h>>
        /\ res' = SE23_product(G, g, h)

CallSE23Inverse ==
    /\ Idle
    /\ \E G \in SE23Groups, g \in SE23Elems :
        /\ op' = "SE23.inverse"
        /\ inst' = G
        /\ args' = <<g>>
        /\ res' = SE23_inverse(G, g)

CallSE23Identity ==
    /\ Idle
    /\ \E G \in SE23Groups :
        /\ op' = "SE23.identity"
        /\ inst' = G
        /\ args' = <<>>
        /\ res' = SE23_identity(G)

CallSE23Exp ==
    /\ Idle
    /\ \E G \in SE23Groups, a \in se23Elems \cup se2Elems :
        /\ op' = "SE23.exp"
        /\ inst' = G
        /\ args' = <<a>>
        /\ res' = SE23_exp(G, a)

Callse23Bracket ==
    /\ Idle
    /\ \E a \in se23Elems \cup ForeignAlgebraElems, b \in se23Elems \cup ForeignAlgebraElems :
        /\ op' = "se23.bracket"
        /\ inst' = "se23"
        /\ args' = <<a, b>>
        /\ res' = se23_bracket("se23", a, b)

Callse23Addition ==
    /\ Idle
    /\ \E a \in se23Elems \cup ForeignAlgebraElems, b \in se23Elems \cup ForeignAlgebraElems :
        /\ op' = "se23.addition"
        /\ inst' = "se23"
        /\ args' = <<a, b>>
        /\ res' = se23_addition("se23", a, b)

Callse23ScalarMultiplication ==
    /\ Idle
    /\ \E k \in 0..MaxScalar, a \in se23Elems \cup ForeignAlgebraElems :
        /\ op' = "se23.scalar_multiplication"
        /\ inst' = "se23"
        /\ args' = <<a>>
        /\ res' = se23_scalar_multiplication("se23", I2N(k), a)

----------------------------------------------------------------------------
(* Calls of exp_mixed *)

\* exp_mixed(X0, l * dt, r * dt, B) with l = (0, 0, 0, a_b, omega_b), r =
\* (0, 0, 0, 0, 0, -g, omega_r) and B either dt * [[0, 1], [0, 0]] or the
\* zero matrix; derive_strapdown_ins_propagation calls it with omega_r = 0
\* and the first B
CallExpMixed ==
    /\ Idle
    /\ \E p0 \in Vec3s, v0 \in Vec3s, q0 \in UnitQuats, a_b \in Vec3s,
          omega_b \in OmegasX, omega_r \in OmegasY,
          g \in Gs, dt \in Dts, coupled \in BOOLEAN :
        LET X0 == Elem("SE23Quat", p0 \o v0 \o q0)
            l == se23_scalar_multiplication("se23", dt,
                     Elem("se23", Zeros(3) \o a_b \o omega_b))
            r == se23_scalar_multiplication("se23", dt,
                     Elem("se23", <<Zero, Zero, Zero, Zero, Zero, NNeg(g)>>
                                  \o omega_r))
            B == MatScale(IF coupled THEN dt ELSE Zero,
                          <<<<Zero, One>>, <<Zero, Zero>>>>)
        IN  /\ op' = "exp_mixed"
            /\ inst' = "rdd2"
            /\ args' = <<X0, l, r, [owner |-> "SX", param |-> B[1] \o B[2]],
                         [owner |-> "float", param |-> <<dt, g>>]>>
            /\ res' = exp_mixed(X0, l, r, B)

\* the number of steps a caller of strapdown_ins_propagate has taken from
\* the state it started with
StepsTaken == args[7].param[1].a

\* strapdown_ins_propagate called by a loop that starts from a state x0 and
\* then feeds each x1 back as the next x0 with the same a_b, omega_b, g and
\* dt; args[6] and args[7] are the loop's start state and step count
CallStrapdownInsPropagate ==
    /\ \/ Idle
       \/ /\ op = "strapdown_ins_propagate"
          /\ ~IsError(res)
          /\ StepsTaken < MaxSteps
    /\ \E x0 \in (IF Idle THEN {p0 \o v0 \o q0 : p0 \in Vec3s, v0 \in Vec3s,
                                                    q0 \in UnitQuats}
                           ELSE {res.param}),
          a_b \in (IF Idle THEN Vec3s ELSE {args[2].param}),
          omega_b \in (IF Idle THEN OmegasX ELSE {args[3].param}),
          g \in (IF Idle THEN Gs ELSE {args[4].param[1]}),
          dt \in (IF Idle THEN Dts ELSE {args[5].param[1]}) :
        /\ op' = "strapdown_ins_propagate"
        /\ inst' = "rdd2"
        /\ args' = <<[owner |-> "SX", param |-> x0],
                     [owner |-> "SX", param |-> a_b],
                     [owner |-> "SX", param |-> omega_b],
                     [owner |-> "SX", param |-> <<g>>],
                     [owner |-> "SX", param |-> <<dt>>],
                     IF Idle THEN [owner |-> "loop", param |-> x0]
                             ELSE args[6],
                     [owner |-> "loop",
                      param |-> <<I2N(IF Idle THEN 1 ELSE StepsTaken + 1)>>]>>
        /\ res' = strapdown_ins_propagate(x0, a_b, omega_b, g, dt)

\* attitude_rate_control called by a control loop: the first call with an
\* integrator state i0 of the caller, each later one with the i1 of the call
\* before and the same i_max; res is the output i1
CallAttitudeRateControl ==
    /\ Idle \/ op = "attitude_rate_control"
    /\ \E i_max \in (IF Idle THEN IMaxs ELSE {args[1].param}),
          omega \in Rates, omega_r \in RateSetPoints,
          i0 \in (IF Idle THEN I0s ELSE {res.param}), dt \in Dts :
        /\ op' = "attitude_rate_control"
        /\ inst' = "rdd2"
        /\ args' = <<[owner |-> "SX", param |-> i_max],
                     [owner |-> "SX", param |-> omega],
                     [owner |-> "SX", param |-> omega_r],
                     [owner |-> "SX", param |-> i0],
                     [owner |-> "SX", param |-> <<dt>>]>>
        /\ res' = [owner |-> "SX",
                   param |-> attitude_rate_control_i1(i_max, omega, omega_r,
                                                      i0, dt)]

Next ==
    \/ CallSE2Product
    \/ CallSE2Inverse
    \/ CallSE2Identity
    \/ CallSE2Exp
    \/ CallSE2Log
    \/ Callse2Wedge
    \/ Callse2Vee
    \/ Callse2Bracket
    \/ Callse2Addition
    \/ Callse2ScalarMultiplication
    \/ CallSE23Elem
    \/ CallSE23Product
    \/ CallSE23Inverse
    \/ CallSE23Identity
    \/ CallSE23Exp
    \/ Callse23Bracket
    \/ Callse23Addition
    \/ Callse23ScalarMultiplication
    \/ CallExpMixed
    \/ CallStrapdownInsPropagate
    \/ CallAttitudeRateControl
    \/ Return

Spec == Init /\ [][Next]_vars

----------------------------------------------------------------------------
(* Claims on SE2 and se2 *)

SE2Zero == [owner |-> "SE2", param |-> <<Zero, Zero, Zero>>]

se2Zero(A) == [owner |-> A, param |-> <<Zero, Zero, Zero>>]

\* C1: for every SE2 element g = (x, y, theta), SE2.inverse(g) is
\* (-R(theta)^T (x, y), -theta), and product(g, inverse(g)) and
\* product(inverse(g), g) both equal identity() = (0, 0, 0).
C1_InverseCancels ==
    (op = "SE2.inverse" /\ args[1].owner = "SE2") =>
        LET g == args[1]
            x == g.param[1]
            y == g.param[2]
            t == g.param[3]
            c == NCos(t)
            s == NSin(t)
        IN  /\ res = [owner |-> "SE2",
                      param |-> <<NNeg(NAdd(NMul(c, x), NMul(s, y))),
                                  NNeg(NSub(NMul(c, y), NMul(s, x))),
                                  NNeg(t)>>]
            /\ SE2_identity("SE2") = SE2Zero
            /\ SE2_product("SE2", g, res) = SE2Zero
            /\ SE2_product("SE2", res, g) = SE2Zero

\* the scenario g = (1, 2, pi/4): its inverse was taken and composes with g
\* to (0, 0, 0)
C1_Witness ==
    /\ op = "SE2.inverse"
    /\ args = <<[owner |-> "SE2", param |-> <<I2N(1), I2N(2), PiFrac(1, 4)>>]>>
    /\ res.owner = "SE2"
    /\ res.param[3] = PiFrac(-1, 4)
    /\ SE2_product("SE2", args[1], res) = SE2Zero

\* C8: SE2.product is associative, product(product(g, h), k) =
\* product(g, product(h, k)) for all SE2 elements g, h, k, where
\* product(g, h) = (R(theta_g) (x_h, y_h) + (x_g, y_g), theta_g + theta_h).
C8_ProductAssociative ==
    (op = "SE2.product" /\ args[1].owner = "SE2" /\ args[2].owner = "SE2") =>
        LET g == args[1]
            h == args[2]
            c == NCos(g.param[3])
            s == NSin(g.param[3])
            xh == h.param[1]
            yh == h.param[2]
        IN  /\ res = [owner |-> "SE2",
                      param |-> <<NAdd(NSub(NMul(c, xh), NMul(s, yh)), g.param[1]),
                                  NAdd(NAdd(NMul(s, xh), NMul(c, yh)), g.param[2]),
                                  NAdd(g.param[3], h.param[3])>>]
            /\ \A k \in SE2Elems :
                   SE2_product("SE2", res, k)
                       = SE2_product("SE2", g, SE2_product("SE2", h, k))

\* a product of two elements with non-zero rotations and translations was
\* formed, and it is not the product in the other order
C8_Witness ==
    /\ op = "SE2.product"
    /\ args[1] = [owner |-> "SE2", param |-> <<I2N(1), I2N(2), PiFrac(1, 4)>>]
    /\ args[2] = [owner |-> "SE2", param |-> <<I2N(1), I2N(1), PiFrac(1, 4)>>]
    /\ res.owner = "SE2"
    /\ res # SE2_product("SE2", args[2], args[1])

se2_negative(A, x) == se2_scalar_multipication(A, I2N(-1), x)

Jacobi(A, a, b, c) ==
    se2_addition(A,
        se2_addition(A, se2_bracket(A, a, se2_bracket(A, b, c)),
                        se2_bracket(A, b, se2_bracket(A, c, a))),
        se2_bracket(A, c, se2_bracket(A, a, b)))

\* C10: the se2 bracket, the commutator of the 3x3 embeddings mapped back to
\* (c[0,2], c[1,2], c[1,0]), is antisymmetric, bracket(a, b) =
\* -bracket(b, a) and bracket(a, a) = 0, and satisfies the Jacobi identity.
C10_BracketAntisymmetricJacobi ==
    (op = "se2.bracket" /\ args[1].owner = inst /\ args[2].owner = inst) =>
        LET a == args[1]
            b == args[2]
        IN  /\ res.owner = inst
            /\ res = se2_negative(inst, se2_bracket(inst, b, a))
            /\ se2_bracket(inst, a, a) = se2Zero(inst)
            /\ \A c \in se2Elems :
                   LET cc == [c EXCEPT !.owner = inst]
                   IN  Jacobi(inst, a, b, cc) = se2Zero(inst)

\* a bracket that is not zero was computed
C10_Witness ==
    /\ op = "se2.bracket"
    /\ inst = "se2"
    /\ args[1] = [owner |-> "se2", param |-> <<I2N(1), I2N(0), PiFrac(1, 4)>>]
    /\ args[2] = [owner |-> "se2", param |-> <<I2N(0), I2N(1), Zero>>]
    /\ res.owner = "se2"
    /\ res # se2Zero("se2")

\* C5: SE2.exp of an algebra element with |theta| below the small-angle
\* threshold (theta = 0 included) uses the Taylor values of a and b, divides
\* nothing by zero, and SE2.exp(zero element) = SE2.identity() = (0, 0, 0).
C5_ExpSmallAngleTaylor ==
    (op = "SE2.exp" /\ args[1].owner = "se2" /\ SmallAngle(args[1].param[3])) =>
        LET x == args[1].param[1]
            y == args[1].param[2]
            t == args[1].param[3]
            a == TaylorA(t)
            b == TaylorB(t)
        IN  /\ res.owner = "SE2"
            /\ \A i \in 1..Len(res.param) : IsFinite(res.param[i])
            /\ res.param = <<NSub(NMul(a, x), NMul(b, y)),
                             NAdd(NMul(b, x), NMul(a, y)), t>>
            /\ args[1] = se2Zero("se2") => res = SE2_identity("SE2")

----------------------------------------------------------------------------
(* Claims on the SE23 groups and se23 *)

\* C2: for every SE23 group and every element g of it, product(g,
\* identity()) and product(identity(), g) have the parameter vector of g,
\* identity() being the all-zero vector of length n_param.
C2_IdentityNeutral ==
    (/\ op = "SE23.product"
     /\ args[1].owner = inst
     /\ args[2].owner = inst) =>
        /\ SE23_identity(inst) = [owner |-> inst, param |-> Zeros(NParam(inst))]
        /\ args[2] = SE23_identity(inst) => res.param = args[1].param
        /\ args[1] = SE23_identity(inst) => res.param = args[2].param

\* C3: for every SE23 group and every element g of it, product(g,
\* inverse(g)) has the parameter vector of identity().
C3_InverseCancels ==
    (op = "SE23.inverse" /\ args[1].owner = inst) =>
        /\ ~IsError(res)
        /\ SE23_product(inst, args[1], res).param = SE23_identity(inst).param

\* C7: for every SE23 group, exp of the zero se23 element is the group's
\* identity(), with the same parameter vector and length.
C7_ExpZeroIsIdentity ==
    (op = "SE23.exp" /\ args[1] = [owner |-> "se23", param |-> Zeros(NParam("se23"))]) =>
        res = SE23_identity(inst)

\* C9: every element has a parameter vector of the declared n_param of its
\* owner (10 for the SE23 groups, 9 for se23), constructing one from a
\* vector of another length fails, and product, inverse, identity and exp
\* return such elements.
C9_ParamLength ==
    /\ (~IsError(res) /\ res.owner \in SE23Groups) => Len(res.param) = 10
    /\ (~IsError(res) /\ res.owner = "se23") => Len(res.param) = 9
    /\ (op = "elem" /\ Len(args[1].param) # NParam(inst)) => IsError(res)
    /\ (op \in {"SE23.product", "SE23.inverse", "SE23.exp"}
            /\ \A i \in 1..Len(args) : args[i].owner \in {inst, AlgebraOf(inst)})
          => (res.owner = inst /\ Len(res.param) = NParam(inst))
    /\ op = "SE23.identity" => (res.owner = inst /\ Len(res.param) = NParam(inst))

BinaryOps ==
    {"SE2.product", "se2.bracket", "se2.addition",
     "SE23.product", "se23.bracket", "se23.addition"}

\* C4: a binary operation (group product, algebra addition, bracket) whose
\* two operands are owned by different instances fails with an error and
\* returns no element; SE23Mrp.product(g, h) with h owned by SE23Quat
\* fails although both groups share the algebra se23.
C4_MismatchFails ==
    (op \in BinaryOps /\ args[1].owner # args[2].owner) =>
        res = Error("AssertionError")

\* SE23Mrp.product was called with an operand of SE23Quat and failed, and
\* se2.addition was refused an operand of another SE2LieAlgebra instance
C4_Witness ==
    \/ /\ op = "SE23.product"
       /\ inst = "SE23Mrp"
       /\ args[1].owner = "SE23Mrp"
       /\ args[2].owner = "SE23Quat"
       /\ AlgebraOf("SE23Mrp") = AlgebraOf("SE23Quat")
       /\ res = Error("AssertionError")
    \/ /\ op = "se2.addition"
       /\ inst = "se2"
       /\ args[1].owner = "se2"
       /\ args[2].owner = "se2_wedge"
       /\ res = Error("AssertionError")

----------------------------------------------------------------------------
(* Claims on exp_mixed *)

se23ZeroElem == [owner |-> "se23", param |-> Zeros(9)]

\* the position, velocity and rotation a call of exp_mixed started from, its
\* step and the acceleration vector (0, 0, -g)
MixedP0 == SE23_p(args[1])

MixedV0 == SE23_v(args[1])

MixedDt == args[5].param[1]

MixedGVec == <<Zero, Zero, NNeg(args[5].param[2])>>

\* p0 + v0 dt + (1/2) g_vec dt^2 and v0 + g_vec dt
KinematicP1 ==
    VAdd(VAdd(MixedP0, VScale(MixedDt, MixedV0)),
         VScale(NMul(Norm(1, 0, 2, 0), NMul(MixedDt, MixedDt)), MixedGVec))

KinematicV1 == VAdd(MixedV0, VScale(MixedDt, MixedGVec))

\* C6 as stated: exp_mixed with l zero, B the zero 2x2 matrix and r =
\* dt (0, 0, 0, g_vec, 0, 0, 0) returns p1 = p0 + v0 dt + (1/2) g_vec dt^2,
\* v1 = v0 + g_vec dt and the rotation of X0.
C6_ZeroCouplingKinematics ==
    (/\ op = "exp_mixed"
     /\ args[2] = se23ZeroElem
     /\ se23_Omega(args[3]).param = Zeros(3)
     /\ args[4].param = Zeros(4)) =>
        /\ SE23_p(res) = KinematicP1
        /\ SE23_v(res) = KinematicV1
        /\ SE23_R(res) = SE23_R(args[1])

\* C6 amended: with l zero and r = dt (0, 0, 0, g_vec, 0, 0, 0), exp_mixed
\* returns v1 = v0 + g_vec dt and the rotation of X0; the position is p1 =
\* p0 when B is the zero matrix, and p1 = p0 + v0 dt + (1/2) g_vec dt^2 when
\* B is dt [[0, 1], [0, 0]].
C6_CouplingGivesKinematics ==
    (/\ op = "exp_mixed"
     /\ args[2] = se23ZeroElem
     /\ se23_Omega(args[3]).param = Zeros(3)) =>
        /\ res.owner = "SE23Quat"
        /\ SE23_v(res) = KinematicV1
        /\ SE23_R(res) = SE23_R(args[1])
        /\ args[4].param = Zeros(4) => SE23_p(res) = MixedP0
        /\ args[4].param = <<Zero, MixedDt, Zero, Zero>> =>
               SE23_p(res) = KinematicP1

\* a step without the coupling was taken from a moving state with a
\* rotation: the velocity gained g_vec dt and the position stayed where it
\* was
C6_Witness ==
    /\ op = "exp_mixed"
    /\ args[2] = se23ZeroElem
    /\ se23_Omega(args[3]).param = Zeros(3)
    /\ args[4].param = Zeros(4)
    /\ MixedV0 # Zeros(3)
    /\ SE23_R(args[1]).param = <<Zero, Zero, Zero, One>>
    /\ SE23_p(res) = MixedP0
    /\ SE23_p(res) # KinematicP1
    /\ SE23_v(res) = KinematicV1

----------------------------------------------------------------------------
(* Claims on the components of the SE23 product *)

\* the rotation of an element of the SE23 group G
SE23_rot(G, g) == Elem(SO3Of(G), From(g.param, 6))

\* C11: SE23 product(g, h) returns the element with position
\* g.p + g.R h.p, velocity g.v + g.R h.v and rotation g.R h.R: h's velocity
\* is rotated by g's rotation and g's velocity is added.
C11_ProductComponents ==
    (op = "SE23.product" /\ args[1].owner = inst /\ args[2].owner = inst) =>
        LET g == args[1]
            h == args[2]
            R == SO3_to_Matrix(SE23_rot(inst, g))
        IN  /\ res.owner = inst
            /\ Len(res.param) = NParam(inst)
            /\ SE23_p(res) = VAdd(SE23_p(g), MatVec(R, SE23_p(h)))
            /\ SE23_v(res) = VAdd(SE23_v(g), MatVec(R, SE23_v(h)))
            /\ SE23_rot(inst, res)
                   = SO3_product(SE23_rot(inst, g), SE23_rot(inst, h))

----------------------------------------------------------------------------
(* Claims on the composition exp_mixed returns *)

\* the coupling matrix a call of exp_mixed was made with
MixedB == <<SubSeq(args[4].param, 1, 2), SubSeq(args[4].param, 3, 4)>>

\* the quaternions Rr = exp(r.Omega), R0 and Rl = exp(l.Omega) of the call
MixedRr == so3_exp_Quat(se23_Omega(args[3])).param

MixedR0 == SE23_R(args[1]).param

MixedRl == so3_exp_Quat(se23_Omega(args[2])).param

\* (Rr R0) Pl + (Rr P0 + Pr) (I + B), with the rotations as matrices
MixedP1 ==
    MatAdd(MatMul(MatMul(QuatToMatrix(MixedRr), QuatToMatrix(MixedR0)),
                  calculate_N(args[2], MixedB)),
           MatMul(MatAdd(MatMul(QuatToMatrix(MixedRr),
                                Horzcat(MixedV0, MixedP0)),
                         calculate_N(args[3], MatNeg(MixedB))),
                  MatAdd(Eye(2), MixedB)))

\* C12: exp_mixed(X0, l, r, B) returns the SE23 element with rotation
\* Rr R0 Rl, in that order, velocity the first and position the second
\* column of P1 = (Rr R0) Pl + (Rr P0 + Pr) (I + B), P0 = [X0.v, X0.p], Pl =
\* N(l, B), Pr = N(r, -B); with zero rotation channels in l and r the
\* rotation is R0.
C12_MixedComposition ==
    op = "exp_mixed" =>
        /\ res.owner = "SE23Quat"
        /\ SE23_R(res).param
               = QuatProduct(QuatProduct(MixedRr, MixedR0), MixedRl)
        /\ SE23_v(res) = Column(MixedP1, 1)
        /\ SE23_p(res) = Column(MixedP1, 2)
        /\ (/\ se23_Omega(args[2]).param = Zeros(3)
            /\ se23_Omega(args[3]).param = Zeros(3)) =>
               SE23_R(res).param = MixedR0

\* a call with rotations in l, X0 and r that do not commute, a moving X0,
\* an acceleration and the coupling: the order of the three rotations and
\* the rotation of Pl by Rr R0 show in the result
C12_Witness ==
    /\ op = "exp_mixed"
    /\ se23_Omega(args[2]).param # Zeros(3)
    /\ se23_Omega(args[3]).param # Zeros(3)
    /\ se23_a_b(args[2]) # Zeros(3)
    /\ MixedV0 # Zeros(3)
    /\ MixedB # <<<<Zero, Zero>>, <<Zero, Zero>>>>
    /\ res.owner = "SE23Quat"
    /\ SE23_R(res).param
           # QuatProduct(QuatProduct(MixedRl, MixedR0), MixedRr)
    /\ SE23_R(res).param
           # QuatProduct(QuatProduct(MixedR0, MixedRr), MixedRl)
    /\ SE23_R(res).param
           # QuatProduct(QuatProduct(MixedRr, MixedRl), MixedR0)
    /\ SE23_R(res).param # MixedR0

----------------------------------------------------------------------------
(* Claims on SE2.log *)

\* the a and b SE2.log selects at theta
LogA(t) == IF SmallAngle(t) THEN TaylorA(t) ELSE FDiv(NSin(t), t)

LogB(t) == IF SmallAngle(t) THEN TaylorB(t) ELSE FDiv(NSub(One, NCos(t)), t)

\* C13: SE2.log of (v, theta) takes the Taylor values of a and b when
\* |theta| < 1e-3 and the closed forms sin(theta)/theta and
\* (1 - cos(theta))/theta otherwise, returns ([[a, b], [-b, a]]/(a^2 + b^2) v,
\* theta), which V = [[a, -b], [b, a]] maps back to v, and log(identity()) is
\* the zero algebra element, nothing in it a division by zero.
C13_LogSeriesGuarded ==
    (op = "SE2.log" /\ args[1].owner = "SE2") =>
        LET x == args[1].param[1]
            y == args[1].param[2]
            t == args[1].param[3]
            a == LogA(t)
            b == LogB(t)
            n == NAdd(NMul(a, a), NMul(b, b))
        IN  /\ res.owner = "se2"
            /\ Len(res.param) = 3
            /\ \A i \in 1..3 : IsFinite(res.param[i])
            /\ res.param[1] = FDiv(NAdd(NMul(a, x), NMul(b, y)), n)
            /\ res.param[2] = FDiv(NSub(NMul(a, y), NMul(b, x)), n)
            /\ res.param[3] = t
            /\ NSub(NMul(a, res.param[1]), NMul(b, res.param[2])) = x
            /\ NAdd(NMul(b, res.param[1]), NMul(a, res.param[2])) = y
            /\ args[1] = SE2_identity("SE2") => res = se2Zero("se2")

\* the logarithm of an element with the rotation pi/4 and a translation was
\* taken, by the closed forms
C13_Witness ==
    /\ op = "SE2.log"
    /\ args[1] = [owner |-> "SE2", param |-> <<I2N(1), I2N(2), PiFrac(1, 4)>>]
    /\ ~SmallAngle(args[1].param[3])
    /\ res.owner = "se2"
    /\ res.param[3] = PiFrac(1, 4)
    /\ res.param[1] # I2N(1)
    /\ SE2_log("SE2", SE2_identity("SE2")) = se2Zero("se2")

----------------------------------------------------------------------------
(* Claims on se2.wedge and se2.vee *)

\* C14: for every parameter vector x of length 3, se2.wedge(x) returns an
\* element owned by se2, the instance wedge was called on, no second
\* algebra instance being created, so that se2.vee(se2.wedge(x)) succeeds
\* and returns x.
C14_WedgeVeeRoundTrip ==
    (op = "se2.wedge" /\ Len(args[1].param) = se2_n_param) =>
        /\ res.owner = inst
        /\ se2_vee(inst, res) = [owner |-> "ndarray", param |-> args[1].param]

----------------------------------------------------------------------------
(* Claims on the strapdown INS propagation *)

\* the step dt, the acceleration vector (0, 0, -g) and the time n dt of a
\* call of strapdown_ins_propagate
InsDt == args[5].param[1]

InsGVec == <<Zero, Zero, NNeg(args[4].param[1])>>

InsTime == NMul(I2N(StepsTaken), InsDt)

\* p + v t + (1/2) g_vec t^2 and v + g_vec t
InsP(p, v, t) ==
    VAdd(VAdd(p, VScale(t, v)),
         VScale(NMul(Norm(1, 0, 2, 0), NMul(t, t)), InsGVec))

InsV(v, t) == VAdd(v, VScale(t, InsGVec))

\* C15: with a_b = 0 and omega_b = 0 a step of strapdown_ins_propagate
\* returns v1 = v0 + g_vec dt, p1 = p0 + v0 dt + (1/2) g_vec dt^2 with
\* g_vec = (0, 0, -g) and the rotation of x0; after n steps from (p0, v0),
\* each fed the x1 of the one before, the state is the one of the constant
\* acceleration g_vec at the time n dt.
C15_StrapdownConstantAcceleration ==
    (/\ op = "strapdown_ins_propagate"
     /\ args[2].param = Zeros(3)
     /\ args[3].param = Zeros(3)) =>
        /\ res.owner = "SX"
        /\ Upto(res.param, 3) =
               InsP(Upto(args[1].param, 3), SubSeq(args[1].param, 4, 6), InsDt)
        /\ SubSeq(res.param, 4, 6) = InsV(SubSeq(args[1].param, 4, 6), InsDt)
        /\ From(res.param, 6) = From(args[1].param, 6)
        /\ Upto(res.param, 3) =
               InsP(Upto(args[6].param, 3), SubSeq(args[6].param, 4, 6),
                    InsTime)
        /\ SubSeq(res.param, 4, 6) =
               InsV(SubSeq(args[6].param, 4, 6), InsTime)
        /\ From(res.param, 6) = From(args[6].param, 6)

\* the last of MaxSteps steps without specific force and rate, from a moving
\* state with a rotation: position and velocity are those of the free fall
\* at the time MaxSteps dt and not those of one step
C15_Witness ==
    /\ op = "strapdown_ins_propagate"
    /\ args[2].param = Zeros(3)
    /\ args[3].param = Zeros(3)
    /\ StepsTaken = MaxSteps
    /\ SubSeq(args[6].param, 4, 6) # Zeros(3)
    /\ From(args[6].param, 6) = <<Zero, Zero, Zero, One>>
    /\ Upto(res.param, 3) =
           InsP(Upto(args[6].param, 3), SubSeq(args[6].param, 4, 6), InsTime)
    /\ Upto(res.param, 3) #
           InsP(Upto(args[6].param, 3), SubSeq(args[6].param, 4, 6), InsDt)
    /\ SubSeq(res.param, 4, 6) = InsV(SubSeq(args[6].param, 4, 6), InsTime)

----------------------------------------------------------------------------
(* Claims on the integrator of the attitude rate control *)

\* x <= y of two finite numbers
NLe(x, y) == SignOf(NSub(y, x)) >= 0

\* the limit i_max of a call of attitude_rate_control and the value i0 +
\* (omega_r - omega) dt it saturates
RateIMax == args[1].param

RateUnsaturated ==
    VAdd(args[4].param,
         VScale(args[5].param[1], VAdd(args[3].param, VNeg(args[2].param))))

InLimits(x, k) == NLe(NNeg(RateIMax[k]), x) /\ NLe(x, RateIMax[k])

\* C16: for an i_max with no negative component, each component of the i1
\* that attitude_rate_control returns lies in [-i_max, i_max], in the first
\* call and in every call that is fed the i1 of the call before, and a
\* component of i0 + (omega_r - omega) dt that lies inside the limits is
\* returned unchanged.
C16_IntegratorWithinLimits ==
    (/\ op = "attitude_rate_control"
     /\ \A k \in 1..3 : NLe(Zero, RateIMax[k])) =>
        \A k \in 1..3 :
            /\ InLimits(res.param[k], k)
            /\ InLimits(RateUnsaturated[k], k) =>
                   res.param[k] = RateUnsaturated[k]

\* a call fed a state inside positive limits and not zero, one component of
\* the sum cut to the upper limit, one to the lower and one, not zero,
\* returned as it was
C16_Witness ==
    /\ op = "attitude_rate_control"
    /\ \A k \in 1..3 : NGt(RateIMax[k], Zero)
    /\ args[4].param # Zeros(3)
    /\ \A k \in 1..3 : InLimits(args[4].param[k], k)
    /\ \E k \in 1..3 : /\ NGt(RateUnsaturated[k], RateIMax[k])
                        /\ res.param[k] = RateIMax[k]
    /\ \E k \in 1..3 : /\ NGt(NNeg(RateIMax[k]), RateUnsaturated[k])
                        /\ res.param[k] = NNeg(RateIMax[k])
    /\ \E k \in 1..3 : /\ InLimits(RateUnsaturated[k], k)
                        /\ res.param[k] = RateUnsaturated[k]
                        /\ res.param[k] # Zero

====
